---------------------------- MODULE Spec2Model ----------------------------
(***************************************************************************)
(* Model of the credit-risk form: utils_model.py (risk bands, model         *)
(* loading, SMTP configuration, mail delivery, SMTP diagnostic) and app.py  *)
(* (the Streamlit session: widgets, "Calcular riesgo", "Enviar correo").    *)
(*                                                                          *)
(* Strings are sequences of one-character strings, so that lower(), strip() *)
(* and int() are computed and not assumed.  Probabilities are counted in    *)
(* hundredths (0.20 is 20, 1.01 is 101): the comparisons of banda_riesgo    *)
(* are order comparisons and keep their meaning on that scale.              *)
(***************************************************************************)
EXTENDS Integers, Sequences, FiniteSets, TLC

VARIABLES
    \* ---- the Streamlit session (app.py) ----
    salario, monto, plazo,   \* the three number_input widgets
    ultimo,                  \* st.session_state.ultimo
    scored,                  \* what the last predict_proba call was given and returned
    ui,                      \* what the last run of the script rendered and did
    \* ---- the process environment ----
    env,                     \* os.environ: the five SMTP_* variables
    \* ---- one call of a utils_model function (the call harness) ----
    call,                    \* the function last called and its arguments
    ret,                     \* what it returned or raised
    \* ---- pure-function harness of banda_riesgo ----
    p_in, banda_out,
    \* ---- harness of cargar_modelo ----
    joblib, carga

vars == <<salario, monto, plazo, ultimo, scored, ui, env, call, ret,
          p_in, banda_out, joblib, carga>>

sessionVars == <<salario, monto, plazo, ultimo, scored, ui>>
callVars    == <<call, ret>>
bandaVars   == <<p_in, banda_out>>
cargaVars   == <<joblib, carga>>

-----------------------------------------------------------------------------
(* Bounds of the model *)

\* how far below 0.00 and above 1.01 the inputs of banda_riesgo range (hundredths)
PMargin == 3
\* longest recipient address typed into the form
MaxEmailLen == 2

-----------------------------------------------------------------------------
(* Python values *)

\* None: a one-element sequence no string of the model equals
None == <<"<None>">>

\* bool(v) for a str-or-None value: None and "" are falsy
Truthy(v) == v # None /\ v # <<>>

\* str.lower(), character by character
LowerChar(c) ==
    CASE c = "A" -> "a"
      [] c = "B" -> "b"
      [] OTHER   -> c

lower(s) == [i \in 1..Len(s) |-> LowerChar(s[i])]

IsSpace(c) == c \in {" ", "\t"}

\* str.strip(): drop leading and trailing whitespace
RECURSIVE lstrip(_)
lstrip(s) ==
    IF s # <<>> /\ IsSpace(Head(s)) THEN lstrip(Tail(s)) ELSE s

RECURSIVE rstrip(_)
rstrip(s) ==
    IF s # <<>> /\ IsSpace(s[Len(s)]) THEN rstrip(SubSeq(s, 1, Len(s) - 1)) ELSE s

\* mutant: no stripping (`if not email:`)
strip_none(s) == s

strip(s) == lstrip(rstrip(s))

Digits == {"0", "1", "2", "3", "4", "5", "6", "7", "8", "9"}

DigitVal(c) ==
    CASE c = "0" -> 0 [] c = "1" -> 1 [] c = "2" -> 2 [] c = "3" -> 3
      [] c = "4" -> 4 [] c = "5" -> 5 [] c = "6" -> 6 [] c = "7" -> 7
      [] c = "8" -> 8 [] c = "9" -> 9

RECURSIVE DigitsVal(_)
DigitsVal(s) ==
    IF s = <<>> THEN 0
    ELSE 10 * DigitsVal(SubSeq(s, 1, Len(s) - 1)) + DigitVal(s[Len(s)])

\* int(s) of a str: surrounding whitespace is dropped; what is left must be
\* a non-empty run of digits, otherwise ValueError
IntParses(s) ==
    LET t == strip(s) IN t # <<>> /\ \A i \in 1..Len(t) : t[i] \in Digits

IntOf(s) == DigitsVal(strip(s))

-----------------------------------------------------------------------------
(* Exceptions *)

ExcClasses ==
    {"SMTPAuthenticationError", "SMTPConnectError", "SMTPServerDisconnected",
     "SMTPRecipientsRefused", "SMTPNotSupportedError",
     "OSError", "SSLError", "ValueError"}

\* the classes of smtplib that derive from SMTPException
SMTPExceptionClasses ==
    {"SMTPAuthenticationError", "SMTPConnectError", "SMTPServerDisconnected",
     "SMTPRecipientsRefused", "SMTPNotSupportedError"}

IsInstance(exc, cls) ==
    CASE cls = "SMTPAuthenticationError" -> exc = "SMTPAuthenticationError"
      [] cls = "SMTPException"           -> exc \in SMTPExceptionClasses
      [] cls = "Exception"               -> TRUE
      [] OTHER                           -> exc = cls

NoExc == "-"

-----------------------------------------------------------------------------
(* utils_model.py: risk bands (probabilities in hundredths) *)

BANDAS_RIESGO ==
    << [nombre |-> "Bajo",  lo |-> 0,  hi |-> 20],
       [nombre |-> "Medio", lo |-> 20, hi |-> 50],
       [nombre |-> "Alto",  lo |-> 50, hi |-> 101] >>

\* the for loop of banda_riesgo over the rest of the table
\* mutant: the upper end of an interval taken as closed
RECURSIVE BandaScanClosed(_, _)
BandaScanClosed(tabla, p) ==
    IF tabla = <<>> THEN "N/A"
    ELSE IF Head(tabla).lo <= p /\ p <= Head(tabla).hi THEN Head(tabla).nombre
    ELSE BandaScanClosed(Tail(tabla), p)

RECURSIVE BandaScan(_, _)
BandaScan(tabla, p) ==
    IF tabla = <<>> THEN "N/A"
    ELSE IF Head(tabla).lo <= p /\ p < Head(tabla).hi THEN Head(tabla).nombre
    ELSE BandaScan(Tail(tabla), p)

banda_riesgo(p) == BandaScan(BANDAS_RIESGO, p)

-----------------------------------------------------------------------------
(* utils_model.py: loading the model artifact *)

\* an exception value: its class and its message, a sequence of words
Exc(cls, words) == [cls |-> cls, msg |-> words]
NoError == Exc(NoExc, <<>>)

\* `word in str(e)`
Contains(words, w) == \E i \in 1..Len(words) : words[i] = w

\* What joblib.load and the import machinery do during one call:
\*   first, second : the exception each joblib.load raises (NoError: it returns)
\*   import_exc    : the exception of `import sklearn.compose._column_transformer`
\*   has_attr      : hasattr(ct, "_RemainderColsList") before the patch
\* line 30: except AttributeError
IsAttributeError(exc) == exc.cls = "AttributeError"

\* mutant: every AttributeError is patched and retried
HasRemainderSymbolAlways(exc) == TRUE

\* line 32: "_RemainderColsList" in msg
HasRemainderSymbol(exc) == Contains(exc.msg, "_RemainderColsList")

cargar_modelo(j) ==
    IF j.first = NoError
    THEN [raised |-> FALSE, exc |-> NoError, value |-> "modelo",
          loads |-> 1, imports |-> 0, injected |-> FALSE]
    ELSE IF ~IsAttributeError(j.first)
    THEN [raised |-> TRUE, exc |-> j.first, value |-> "-",
          loads |-> 1, imports |-> 0, injected |-> FALSE]
    ELSE IF HasRemainderSymbol(j.first)
    THEN IF j.import_exc # NoError
         THEN \* the bare raise of the inner handler re-raises what it caught
              [raised |-> TRUE, exc |-> j.import_exc, value |-> "-",
               loads |-> 1, imports |-> 1, injected |-> FALSE]
         ELSE IF j.second = NoError
         THEN [raised |-> FALSE, exc |-> NoError, value |-> "modelo",
               loads |-> 2, imports |-> 1, injected |-> ~j.has_attr]
         ELSE [raised |-> TRUE, exc |-> j.second, value |-> "-",
               loads |-> 2, imports |-> 1, injected |-> ~j.has_attr]
    ELSE [raised |-> TRUE, exc |-> j.first, value |-> "-",
          loads |-> 1, imports |-> 0, injected |-> FALSE]


-----------------------------------------------------------------------------
(* The remote side.  A call of the mail functions performs a sequence of     *)
(* network operations; `net` says which of them (counted from 1, 0 for none) *)
(* raises, and which exception.  The operations before it succeed, the ones  *)
(* after it are never attempted.                                             *)

NetOp(op, arg) == [op |-> op, arg |-> arg]

\* the operations of `ops` that are attempted, each with whether it succeeded
Attempted(ops, net) ==
    IF net.at \in 1..Len(ops)
    THEN [i \in 1..net.at |-> [op |-> ops[i].op, arg |-> ops[i].arg, ok |-> i < net.at]]
    ELSE [i \in 1..Len(ops) |-> [op |-> ops[i].op, arg |-> ops[i].arg, ok |-> TRUE]]

Failed(ops, net) == net.at \in 1..Len(ops)

\* smtplib.SMTP.__exit__: leaving the with block sends QUIT.  On the normal
\* path QUIT is the last operation of the list and may raise; when the block
\* is left by an exception of an operation after the constructor, QUIT is
\* still attempted on the way out.
ExitQuit(ops, net) ==
    IF Failed(ops, net) /\ net.at > 1 /\ ops[net.at].op # "quit"
    THEN <<[op |-> "quit", arg |-> <<>>, ok |-> TRUE]>>
    ELSE <<>>

\* mutant: on a STARTTLS port the login is sent before the upgrade
SmtpOpsLoginFirst(cfg, last) ==
    IF cfg.port = 465
    THEN <<NetOp("SMTP_SSL", <<cfg.host, cfg.port>>),
           NetOp("login", <<cfg.user, cfg.pwd>>)>>
         \o last \o <<NetOp("quit", <<>>)>>
    ELSE <<NetOp("SMTP", <<cfg.host, cfg.port>>),
           NetOp("ehlo", <<>>),
           NetOp("login", <<cfg.user, cfg.pwd>>),
           NetOp("starttls", <<>>),
           NetOp("ehlo", <<>>)>>
         \o last \o <<NetOp("quit", <<>>)>>

\* the body of the two `with smtplib...` blocks, up to the function's own
\* last call (`last`: send_message, or nothing for the diagnostic)
SmtpOps(cfg, last) ==
    IF cfg.port = 465
    THEN <<NetOp("SMTP_SSL", <<cfg.host, cfg.port>>),
           NetOp("login", <<cfg.user, cfg.pwd>>)>>
         \o last \o <<NetOp("quit", <<>>)>>
    ELSE <<NetOp("SMTP", <<cfg.host, cfg.port>>),
           NetOp("ehlo", <<>>),
           NetOp("starttls", <<>>),
           NetOp("ehlo", <<>>),
           NetOp("login", <<cfg.user, cfg.pwd>>)>>
         \o last \o <<NetOp("quit", <<>>)>>

-----------------------------------------------------------------------------
(* utils_model.py: SMTP configuration *)

EnvPort(e) == IF e.SMTP_PORT = None THEN <<"5", "8", "7">> ELSE e.SMTP_PORT

\* _smtp_cfg(): int() of the port raises ValueError outside every try block
_smtp_cfg(e) ==
    IF ~IntParses(EnvPort(e))
    THEN [raised |-> TRUE, exc |-> "ValueError",
          host |-> None, port |-> 0, user |-> None, pwd |-> None, from |-> None]
    ELSE [raised |-> FALSE, exc |-> NoExc,
          host |-> e.SMTP_HOST,
          port |-> IntOf(EnvPort(e)),
          user |-> e.SMTP_USER,
          pwd  |-> e.SMTP_PASS,
          from |-> IF Truthy(e.SMTP_FROM) THEN e.SMTP_FROM ELSE e.SMTP_USER]

\* all([cfg["host"], cfg["port"], cfg["user"], cfg["pwd"], cfg["from"]])
AllCfg(cfg) ==
    /\ Truthy(cfg.host)
    /\ cfg.port # 0
    /\ Truthy(cfg.user)
    /\ Truthy(cfg.pwd)
    /\ Truthy(cfg.from)

\* mutant: the account compared with itself
FromDiffersSelf(cfg) ==
    /\ Truthy(cfg.user)
    /\ Truthy(cfg.from)
    /\ lower(cfg.user) # lower(cfg.user)

\* cfg["user"] and cfg["from"] and cfg["user"].lower() != cfg["from"].lower()
FromDiffers(cfg) ==
    /\ Truthy(cfg.user)
    /\ Truthy(cfg.from)
    /\ lower(cfg.user) # lower(cfg.from)

_mask(v) ==
    IF ~Truthy(v) THEN <<>>
    ELSE IF Len(v) <= 4 THEN v
    ELSE SubSeq(v, 1, 2) \o <<"*", "*", "*", "*">> \o SubSeq(v, Len(v) - 1, Len(v))

\* a list comprehension with a filter
RECURSIVE Filter(_, _)
Filter(names, keep) ==
    IF names = <<>> THEN <<>>
    ELSE (IF keep[Head(names)] THEN <<Head(names)>> ELSE <<>>)
         \o Filter(Tail(names), keep)

validar_smtp_env(e) ==
    LET cfg == _smtp_cfg(e) IN
    IF cfg.raised
    THEN [raised |-> TRUE, exc |-> cfg.exc, ok |-> FALSE, faltan |-> <<>>,
          masked |-> <<>>, warning_from |-> FALSE]
    ELSE LET falta == [k \in {"SMTP_HOST", "SMTP_PORT", "SMTP_USER", "SMTP_PASS", "SMTP_FROM"} |->
                         CASE k = "SMTP_HOST" -> ~Truthy(cfg.host)
                           [] k = "SMTP_PORT" -> cfg.port = 0
                           [] k = "SMTP_USER" -> ~Truthy(cfg.user)
                           [] k = "SMTP_PASS" -> ~Truthy(cfg.pwd)
                           [] k = "SMTP_FROM" -> ~Truthy(cfg.from)]
             faltan == Filter(<<"SMTP_HOST", "SMTP_PORT", "SMTP_USER", "SMTP_PASS", "SMTP_FROM">>, falta)
         IN [raised |-> FALSE, exc |-> NoExc,
             ok |-> Len(faltan) = 0,
             faltan |-> faltan,
             masked |-> [host |-> _mask(cfg.host), port |-> cfg.port, user |-> _mask(cfg.user),
                         pwd |-> _mask(cfg.pwd), from |-> _mask(cfg.from)],
             warning_from |-> FromDiffers(cfg)]

-----------------------------------------------------------------------------
(* utils_model.py: mail delivery *)

MsgFaltan == "Faltan variables de entorno SMTP."
MsgGmail  == "Para Gmail, SMTP_FROM debe ser igual a SMTP_USER (salvo alias verificado)."
\* the three handlers format "<prefix>: {e}"; the model keeps the prefix
MsgAuth    == "Autenticacion fallo"    \* "Autenticación falló" in the source
MsgSmtp    == "Error SMTP"
MsgGeneral == "Error general"
MsgOK      == "OK"

\* mutant: the SMTPException clause placed before the authentication clause
HandlerMsgReordered(exc) ==
    IF IsInstance(exc, "SMTPException") THEN MsgSmtp
    ELSE IF IsInstance(exc, "SMTPAuthenticationError") THEN MsgAuth
    ELSE MsgGeneral

\* the except clauses of enviar_email_simple, in their order
HandlerMsg(exc) ==
    IF IsInstance(exc, "SMTPAuthenticationError") THEN MsgAuth
    ELSE IF IsInstance(exc, "SMTPException") THEN MsgSmtp
    ELSE MsgGeneral

\* the EmailMessage built at lines 155-160 (the HTML alternative repeats the
\* text with its line breaks replaced and is not kept)
EmailMessage(cfg, destinatario, asunto, cuerpo_texto) ==
    [Subject |-> asunto, From |-> cfg.from, To |-> destinatario, content |-> cuerpo_texto]

EnviarResult(raised, exc, ok, msg, log) ==
    [raised |-> raised, exc |-> exc, ok |-> ok, msg |-> msg, log |-> log]

enviar_email_simple(e, destinatario, asunto, cuerpo_texto, net) ==
    LET cfg == _smtp_cfg(e) IN
    IF cfg.raised THEN EnviarResult(TRUE, cfg.exc, FALSE, "", <<>>)
    ELSE IF ~AllCfg(cfg) THEN EnviarResult(FALSE, NoExc, FALSE, MsgFaltan, <<>>)
    ELSE IF FromDiffers(cfg) THEN EnviarResult(FALSE, NoExc, FALSE, MsgGmail, <<>>)
    ELSE LET msg == EmailMessage(cfg, destinatario, asunto, cuerpo_texto)
             ops == SmtpOps(cfg, <<NetOp("send_message", msg)>>)
             log == Attempted(ops, net) \o ExitQuit(ops, net)
         IN IF Failed(ops, net)
            THEN EnviarResult(FALSE, NoExc, FALSE, HandlerMsg(net.exc), log)
            ELSE EnviarResult(FALSE, NoExc, TRUE, MsgOK, log)

-----------------------------------------------------------------------------
(* utils_model.py: SMTP diagnostic *)

Paso(paso, ok) == [paso |-> paso, ok |-> ok]

\* the except clauses of the protocol + AUTH block, in their order
HandlerPaso(exc) ==
    IF IsInstance(exc, "SMTPAuthenticationError") THEN "AUTH"
    ELSE IF IsInstance(exc, "SMTPException") THEN "SMTP"
    ELSE "GENERAL"

AuthPaso(cfg) == IF cfg.port = 465 THEN "SSL(465)+AUTH" ELSE "STARTTLS(587)+AUTH"

DiagResult(raised, exc, ok, pasos, log) ==
    [raised |-> raised, exc |-> exc, ok |-> ok, pasos |-> pasos, log |-> log]

\* mutant: the failed step put in front of the steps already listed
FailReturnInFront(pasos, paso, log) ==
    DiagResult(FALSE, NoExc, FALSE, <<Paso(paso, FALSE)>> \o pasos, log)

\* the return of a failed step: {"ok": False, "pasos": pasos + [failed step]}
FailReturn(pasos, paso, log) ==
    DiagResult(FALSE, NoExc, FALSE, pasos \o <<Paso(paso, FALSE)>>, log)

\* The network operations are numbered through the whole call: 1 is
\* gethostbyname, 2 is create_connection, 3.. are those of the with block.
diagnostico_smtp_avanzado(e, net) ==
    LET cfg == _smtp_cfg(e) IN
    IF cfg.raised THEN DiagResult(TRUE, cfg.exc, FALSE, <<>>, <<>>)
    ELSE IF ~AllCfg(cfg)
    THEN DiagResult(FALSE, NoExc, FALSE, <<Paso("variables", FALSE)>>, <<>>)
    ELSE LET dns   == <<NetOp("gethostbyname", <<cfg.host>>)>>
             sock  == <<NetOp("create_connection", <<cfg.host, cfg.port>>)>>
             smtp  == SmtpOps(cfg, <<>>)
             net2  == [at |-> net.at - 1, exc |-> net.exc]
             net3  == [at |-> net.at - 2, exc |-> net.exc]
             \* the position of login in the with block
             loginAt == IF cfg.port = 465 THEN 2 ELSE 5
         IN IF Failed(dns, net)
            THEN FailReturn(<<>>, "DNS", Attempted(dns, net))
            ELSE IF Failed(sock, net2)
            THEN FailReturn(<<Paso("DNS", TRUE)>>, "Socket",
                            Attempted(dns, net) \o Attempted(sock, net2))
            ELSE LET pasos == <<Paso("DNS", TRUE), Paso("Socket", TRUE)>>
                     log   == Attempted(dns, net) \o Attempted(sock, net2)
                              \o Attempted(smtp, net3) \o ExitQuit(smtp, net3)
                     \* pasos.append(...+AUTH) runs right after login returned
                     authed == IF ~Failed(smtp, net3) \/ net3.at > loginAt
                               THEN <<Paso(AuthPaso(cfg), TRUE)>> ELSE <<>>
                 IN IF Failed(smtp, net3)
                    THEN FailReturn(pasos \o authed, HandlerPaso(net.exc), log)
                    ELSE DiagResult(FALSE, NoExc, TRUE, pasos \o authed, log)

-----------------------------------------------------------------------------
(* app.py: the Streamlit session.  The script runs from top to bottom once   *)
(* per interaction; an optional value (None or a dict) is <<>> or <<d>>.     *)

Some(d) == <<d>>
Nothing == <<>>

\* number_input: value=4000.0 / 3000.0 / 12, and the largest value allowed
Salarios == {4000, 8000}
Montos   == {3000, 10000}
Plazos   == {12, 36}

\* what predict_proba returns: probabilities on both sides of every threshold
Probs == {19, 20, 49, 50, 100}

\* str(uuid.uuid4())[:8]
EnvioIds == {"id1", "id2"}

EmailChars == {" ", "a"}

RECURSIVE SeqsUpTo(_, _)
SeqsUpTo(S, n) ==
    IF n = 0 THEN {<<>>}
    ELSE LET shorter == SeqsUpTo(S, n - 1)
         IN shorter \cup {Append(t, c) : t \in {x \in shorter : Len(x) = n - 1}, c \in S}

Emails == SeqsUpTo(EmailChars, MaxEmailLen)

\* f"{u['prob']*100:.1f}%": the percentage in tenths of a percent
Pct1(prob) == prob * 10

\* mutant: the band taken of the percentage instead of the probability
CalculoOfPercent(sal, mon, pla, prob) ==
    [salario |-> sal, monto |-> mon, plazo |-> pla, prob |-> prob,
     nivel |-> banda_riesgo(prob * 100)]

\* lines 31-36: the record stored by "Calcular riesgo"
Calculo(sal, mon, pla, prob) ==
    [salario |-> sal, monto |-> mon, plazo |-> pla, prob |-> prob,
     nivel |-> banda_riesgo(prob)]

\* mutant: the label misspelt in the comparison
deshabilitar_envio_typo(u) == u.nivel = "alto"

\* line 45
deshabilitar_envio(u) == u.nivel = "Alto"

\* lines 59-71: the fields the body interpolates
Cuerpo(u, envio_id) ==
    [salario |-> u.salario, monto |-> u.monto, plazo |-> u.plazo,
     pct |-> Pct1(u.prob), nivel |-> u.nivel, id |-> envio_id]

Asunto(envio_id) == [id |-> envio_id]

\* lines 80-85: what the page shows for the (ok, msg) returned; when the
\* call raised, the script stopped before line 80
MostrarEnvio(r) ==
    IF r.raised THEN "exception"
    ELSE IF r.ok THEN "success" ELSE "error"

NoSend == [raised |-> FALSE, exc |-> NoExc, ok |-> FALSE, msg |-> "", log |-> <<>>]

\* What one run of the script renders and does, given the session record
\* after line 36 (`ult`), whether the form was submitted (`enviar`), the
\* text of the address box, the uuid drawn and the remote side's behaviour.
\*   shown    : st.metric + st.write (lines 41-42)
\*   info     : the st.info of line 47
\*   form     : the form is on screen; disabled: its submit button is disabled
\*   outcome  : "none", "invalid" (line 56), "success" (81), "error" (84),
\*              "exception" (enviar_email_simple raised: the script stopped)
\*   sends    : the calls of enviar_email_simple, with their arguments
\*   email    : the text of the address box as last submitted
Render(trigger, ult, enviar, email, envio_id, e, net) ==
    IF ult = Nothing
    THEN [trigger |-> trigger, shown |-> Nothing, info |-> FALSE, form |-> FALSE,
          disabled |-> FALSE, outcome |-> "none", envio_id |-> "-",
          sends |-> <<>>, result |-> NoSend, email |-> email]
    ELSE LET u    == ult[1]
             base == [trigger |-> trigger,
                      shown |-> Some([pct |-> Pct1(u.prob), nivel |-> u.nivel]),
                      info |-> deshabilitar_envio(u), form |-> TRUE,
                      disabled |-> deshabilitar_envio(u), outcome |-> "none",
                      envio_id |-> "-", sends |-> <<>>, result |-> NoSend,
                      email |-> email]
         IN IF ~enviar THEN base
            ELSE IF strip(email) = <<>> THEN [base EXCEPT !.outcome = "invalid"]
            ELSE LET r == enviar_email_simple(e, email, Asunto(envio_id),
                                              Cuerpo(u, envio_id), net)
                 IN [base EXCEPT
                       !.envio_id = envio_id,
                       !.sends = <<[destinatario |-> email, asunto |-> Asunto(envio_id),
                                    cuerpo_texto |-> Cuerpo(u, envio_id)]>>,
                       !.result = r,
                       !.outcome = MostrarEnvio(r)]

\* the state after the script's first run: default widget values, no result
InitSession ==
    /\ salario = 4000 /\ monto = 3000 /\ plazo = 12
    /\ ultimo = Nothing
    /\ scored = Nothing
    /\ ui = Render("start", Nothing, FALSE, <<>>, "-", env, [at |-> 0, exc |-> NoExc])

\* a run caused by a widget: no button was pressed
Rerun(sal, mon, pla) ==
    /\ salario' = sal /\ monto' = mon /\ plazo' = pla
    /\ ui' = Render("widget", ultimo, FALSE, ui.email, "-", env, [at |-> 0, exc |-> NoExc])
    /\ UNCHANGED <<ultimo, scored, env, callVars, bandaVars, cargaVars>>

ChangeSalario == \E v \in Salarios \ {salario} : Rerun(v, monto, plazo)
ChangeMonto   == \E v \in Montos \ {monto} : Rerun(salario, v, plazo)
ChangePlazo   == \E v \in Plazos \ {plazo} : Rerun(salario, monto, v)

\* "Calcular riesgo" pressed: lines 30-36, then the display and the form
CalcularRiesgo ==
    \E prob \in Probs :
        /\ ultimo' = Some(Calculo(salario, monto, plazo, prob))
        /\ scored' = Some([salario |-> salario, monto |-> monto, plazo |-> plazo,
                           prob |-> prob])
        /\ ui' = Render("calcular", ultimo', FALSE, ui.email, "-", env, [at |-> 0, exc |-> NoExc])
        /\ UNCHANGED <<salario, monto, plazo, env, callVars, bandaVars, cargaVars>>

\* the behaviours of the remote side tried in the session
SessionNets ==
    {[at |-> 0, exc |-> NoExc], [at |-> 1, exc |-> "OSError"],
     [at |-> 2, exc |-> "SMTPAuthenticationError"]}

\* "Enviar correo" pressed: possible when the form on screen has its button
\* enabled.  "Calcular riesgo" is not pressed in that run.
EnviarCorreo ==
    \E email \in Emails, envio_id \in EnvioIds, net \in SessionNets :
        /\ ui.form /\ ~ui.disabled
        /\ ui' = Render("enviar", ultimo, TRUE, email, envio_id, env, net)
        /\ UNCHANGED <<salario, monto, plazo, ultimo, scored, env, callVars,
                       bandaVars, cargaVars>>

-----------------------------------------------------------------------------
(* The call harness: one process environment, and calls of the three SMTP   *)
(* functions of utils_model.py under every behaviour of the remote side.    *)

EnvValues ==
    [SMTP_HOST : {None, <<>>, <<"h">>},
     SMTP_PORT : {None, <<>>, <<"0">>, <<"2", "5">>, <<"4", "6", "5">>, <<"5", "8", "7">>, <<"x">>},
     SMTP_USER : {None, <<>>, <<"a">>, <<"A">>},
     SMTP_PASS : {None, <<>>, <<"p">>},
     SMTP_FROM : {None, <<>>, <<"a">>, <<"A">>, <<"b">>}]

\* the longest operation sequence is the diagnostic's on a STARTTLS port
MaxOps == Len(SmtpOps([host |-> <<>>, port |-> 587, user |-> <<>>, pwd |-> <<>>], <<>>)) + 2

Nets == [at : 0..MaxOps, exc : ExcClasses]

Recipients == {<<"a">>, <<"a", "@", "b">>}

NoCall == [fn |-> "none", net |-> [at |-> 0, exc |-> NoExc], to |-> <<>>]
NoRet  == [raised |-> FALSE, exc |-> NoExc, ok |-> FALSE]

InitBanda == p_in = 0 /\ banda_out = "-"

NoCarga == [raised |-> FALSE, exc |-> NoError, value |-> "-",
            loads |-> 0, imports |-> 0, injected |-> FALSE]

InitCarga ==
    /\ joblib = [first |-> NoError, second |-> NoError, import_exc |-> NoError, has_attr |-> FALSE]
    /\ carga = NoCarga

\* The session stands at a computed result of the low band (default widget
\* values), so that the form is on screen with its button enabled.
InitSmtp ==
    /\ env \in EnvValues
    /\ call = NoCall
    /\ ret = NoRet
    /\ salario = 4000 /\ monto = 3000 /\ plazo = 12
    /\ ultimo = Some(Calculo(4000, 3000, 12, 19))
    /\ scored = Some([salario |-> 4000, monto |-> 3000, plazo |-> 12, prob |-> 19])
    /\ ui = Render("calcular", ultimo, FALSE, <<>>, "-", env, [at |-> 0, exc |-> NoExc])
    /\ InitBanda /\ InitCarga

\* The functions are called one at a time: a call starts when none is pending.
\* enviar_email_simple is called by the form's submit (app.py lines 54-85),
\* which then shows what it returned.
CallEnviar ==
    \E net \in Nets, to \in Recipients, envio_id \in EnvioIds :
        /\ call = NoCall
        /\ ui.form /\ ~ui.disabled
        /\ ui' = Render("enviar", ultimo, TRUE, to, envio_id, env, net)
        /\ call' = [fn |-> "enviar_email_simple", net |-> net, to |-> to]
        /\ ret' = ui'.result
        /\ UNCHANGED <<env, salario, monto, plazo, ultimo, scored, bandaVars, cargaVars>>

CallDiagnostico ==
    \E net \in Nets :
        /\ call = NoCall
        /\ call' = [fn |-> "diagnostico_smtp_avanzado", net |-> net, to |-> <<>>]
        /\ ret' = diagnostico_smtp_avanzado(env, net)
        /\ UNCHANGED <<env, sessionVars, bandaVars, cargaVars>>

CallValidar ==
    /\ call = NoCall
    /\ call' = [fn |-> "validar_smtp_env", net |-> [at |-> 0, exc |-> NoExc], to |-> <<>>]
    /\ ret' = validar_smtp_env(env)
    /\ UNCHANGED <<env, sessionVars, bandaVars, cargaVars>>

\* the caller has taken the result; the page is drawn again without it
Return ==
    /\ call # NoCall
    /\ call' = NoCall
    /\ ret' = NoRet
    /\ ui' = Render("calcular", ultimo, FALSE, <<>>, "-", env, [at |-> 0, exc |-> NoExc])
    /\ UNCHANGED <<env, salario, monto, plazo, ultimo, scored, bandaVars, cargaVars>>

NextSmtp == CallEnviar \/ CallDiagnostico \/ CallValidar \/ Return

SpecSmtp == InitSmtp /\ [][NextSmtp]_vars

-----------------------------------------------------------------------------
(* banda_riesgo applied to every probability around the table *)

BandaInputs == (BANDAS_RIESGO[1].lo - PMargin) .. (BANDAS_RIESGO[3].hi + PMargin)

InitSessionIdle ==
    /\ env \in {[SMTP_HOST |-> None, SMTP_PORT |-> None, SMTP_USER |-> None,
                 SMTP_PASS |-> None, SMTP_FROM |-> None]}
    /\ call = NoCall /\ ret = NoRet
    /\ InitSession

InitBandaSpec ==
    /\ p_in \in BandaInputs
    /\ banda_out = "-"
    /\ InitSessionIdle /\ InitCarga

BandaCall ==
    /\ banda_out = "-"
    /\ banda_out' = banda_riesgo(p_in)
    /\ UNCHANGED <<p_in, env, callVars, sessionVars, cargaVars>>

BandaNext ==
    /\ banda_out # "-"
    /\ p_in' \in BandaInputs
    /\ banda_out' = "-"
    /\ UNCHANGED <<env, callVars, sessionVars, cargaVars>>

NextBanda == BandaCall \/ BandaNext

SpecBanda == InitBandaSpec /\ [][NextBanda]_vars

-----------------------------------------------------------------------------
(* cargar_modelo under every behaviour of joblib.load and of the import *)

LoadErrors ==
    {Exc("AttributeError", <<"Can't get attribute", "_RemainderColsList", "on module">>),
     Exc("AttributeError", <<"Can't get attribute", "Other", "on module">>),
     Exc("FileNotFoundError", <<"No such file">>),
     Exc("ModuleNotFoundError", <<"No module named", "_RemainderColsList">>)}

ImportErrors == {Exc("ImportError", <<"cannot import", "sklearn">>)}

JoblibBehaviours ==
    [first : LoadErrors \cup {NoError},
     second : LoadErrors \cup {NoError},
     import_exc : ImportErrors \cup {NoError},
     has_attr : BOOLEAN]

InitCargaSpec ==
    /\ joblib \in JoblibBehaviours
    /\ carga = NoCarga
    /\ InitSessionIdle /\ InitBanda

CargarModelo ==
    /\ carga = NoCarga
    /\ carga' = cargar_modelo(joblib)
    /\ UNCHANGED <<joblib, env, callVars, sessionVars, bandaVars>>

\* the process is started again
Restart ==
    /\ carga # NoCarga
    /\ carga' = NoCarga
    /\ joblib' \in JoblibBehaviours
    /\ UNCHANGED <<env, callVars, sessionVars, bandaVars>>

NextCarga == CargarModelo \/ Restart

SpecCarga == InitCargaSpec /\ [][NextCarga]_vars

-----------------------------------------------------------------------------
(* The session *)

Env(host, port, user, pwd, from) ==
    [SMTP_HOST |-> host, SMTP_PORT |-> port, SMTP_USER |-> user,
     SMTP_PASS |-> pwd, SMTP_FROM |-> from]

SessionEnvs ==
    {Env(<<"h">>, <<"4", "6", "5">>, <<"a">>, <<"p">>, None),
     Env(<<"h">>, None, <<"a">>, <<"p">>, <<"A">>),
     Env(<<"h">>, None, <<"a">>, <<"p">>, <<"b">>),
     Env(None, None, <<"a">>, <<"p">>, None),
     Env(<<"h">>, <<>>, <<"a">>, <<"p">>, None)}

Init ==
    /\ env \in SessionEnvs
    /\ call = NoCall /\ ret = NoRet
    /\ InitSession /\ InitBanda /\ InitCarga

Next ==
    \/ ChangeSalario
    \/ ChangeMonto
    \/ ChangePlazo
    \/ CalcularRiesgo
    \/ EnviarCorreo

Spec == Init /\ [][Next]_vars

-----------------------------------------------------------------------------
(* Vocabulary of the properties, stated on the raw values *)

Present(v) == v \notin {None, <<>>}

\* whitespace-only (or empty) text
Blank(s) == \A i \in 1..Len(s) : s[i] \in {" ", "\t"}

SameNoCase(a, b) ==
    /\ Len(a) = Len(b)
    /\ \A i \in 1..Len(a) : LowerChar(a[i]) = LowerChar(b[i])

\* the sender after its default: SMTP_FROM, or SMTP_USER when that is unset or empty
EnvSender(e) == IF Present(e.SMTP_FROM) THEN e.SMTP_FROM ELSE e.SMTP_USER

\* every value is there and the port is a number other than 0
CompleteEnv(e) ==
    /\ Present(e.SMTP_HOST) /\ Present(e.SMTP_USER) /\ Present(e.SMTP_PASS)
    /\ Present(EnvSender(e))
    /\ IntParses(EnvPort(e)) /\ IntOf(EnvPort(e)) # 0

OpsOf(log, ops) == {i \in 1..Len(log) : log[i].op \in ops}

IsEnviar == call.fn = "enviar_email_simple"
IsDiag   == call.fn = "diagnostico_smtp_avanzado"
IsValidar == call.fn = "validar_smtp_env"

-----------------------------------------------------------------------------
(* Properties *)

\* C1: enviar_email_simple is called only when the stored record's band is
\* not "Alto"; while the stored band is "Alto" the submit button on screen is
\* disabled and the run made no send attempt.
C1_NoSendForAlto ==
    /\ ui.sends # <<>> => ultimo # Nothing /\ ultimo[1].nivel # "Alto"
    /\ (ultimo # Nothing /\ ultimo[1].nivel = "Alto")
          => ui.form /\ ui.disabled /\ ui.info /\ ui.sends = <<>> /\ ui.outcome = "none"

\* C1 witness: a record of band "Alto" computed after an address had been
\* submitted under an earlier record; the button is now disabled.
C1_Witness ==
    /\ ultimo # Nothing /\ ultimo[1].nivel = "Alto"
    /\ ui.disabled /\ Len(ui.email) > 0 /\ ~Blank(ui.email)

\* C2 as stated: the bands of the table, with the labels "Low" / "Medium" /
\* "High" of the glossary.
C2_EnglishLabels ==
    banda_out # "-" =>
        /\ (0 <= p_in /\ p_in < 20)   => banda_out = "Low"
        /\ (20 <= p_in /\ p_in < 50)  => banda_out = "Medium"
        /\ (50 <= p_in /\ p_in < 101) => banda_out = "High"
        /\ (p_in < 0 \/ p_in >= 101)  => banda_out = "N/A"

\* C2 amended: banda_riesgo(p) is "Bajo" for 0 <= p < 0.20, "Medio" for
\* 0.20 <= p < 0.50, "Alto" for 0.50 <= p < 1.01 and "N/A" for p < 0 or
\* p >= 1.01 (probabilities in hundredths).
C2_Bandas ==
    banda_out # "-" =>
        /\ (0 <= p_in /\ p_in < 20)   <=> banda_out = "Bajo"
        /\ (20 <= p_in /\ p_in < 50)  <=> banda_out = "Medio"
        /\ (50 <= p_in /\ p_in < 101) <=> banda_out = "Alto"
        /\ (p_in < 0 \/ p_in >= 101)  <=> banda_out = "N/A"

\* C2 witness: p = 0.20, on the boundary of two intervals, is "Medio"
C2_Witness == p_in = 20 /\ banda_out = "Medio"

\* C3: with a complete configuration whose sender differs from the account
\* (ignoring case) enviar_email_simple returns (False, message) and performs
\* no network operation; every message sent carries a From equal, ignoring
\* case, to the account of the login before it; with SMTP_FROM unset the
\* sender is SMTP_USER and the check passes.
C3_SenderIsAccount ==
    IsEnviar =>
        /\ (CompleteEnv(env) /\ ~SameNoCase(EnvSender(env), env.SMTP_USER))
              => ~ret.raised /\ ~ret.ok /\ ret.msg = MsgGmail /\ ret.log = <<>>
        /\ \A i \in OpsOf(ret.log, {"send_message"}) :
              \E j \in OpsOf(ret.log, {"login"}) :
                  /\ j < i /\ ret.log[j].ok
                  /\ SameNoCase(ret.log[i].arg.From, ret.log[j].arg[1])
        /\ (CompleteEnv(env) /\ env.SMTP_FROM = None)
              => /\ ret.msg # MsgGmail
                 /\ ret.log # <<>>
                 /\ \A i \in OpsOf(ret.log, {"send_message"}) :
                        ret.log[i].arg.From = env.SMTP_USER

\* C3 witness: account "a", sender "b": the call is refused
C3_Witness ==
    /\ IsEnviar /\ CompleteEnv(env)
    /\ env.SMTP_USER = <<"a">> /\ env.SMTP_FROM = <<"b">>
    /\ ret.msg = MsgGmail

\* C4 as stated: when host, port, user, password or sender is missing or
\* empty after the defaults (port "587" when unset, sender = user),
\* enviar_email_simple returns (False, "Faltan variables de entorno SMTP.")
\* without network activity, the diagnostic returns ok=False with the single
\* failed step "variables", validar_smtp_env returns ok=False with a
\* non-empty list; and validar_smtp_env returns ok=True exactly when
\* enviar_email_simple does not take the missing-variables exit.
C4_MissingConfigDetected ==
    LET missing == \/ ~Present(env.SMTP_HOST)
                   \/ ~Present(EnvPort(env))
                   \/ ~Present(env.SMTP_USER)
                   \/ ~Present(env.SMTP_PASS)
                   \/ ~Present(EnvSender(env))
        sent == enviar_email_simple(env, <<"a">>, "asunto", "cuerpo", [at |-> 0, exc |-> NoExc])
    IN /\ (IsEnviar /\ missing)
            => ~ret.raised /\ ~ret.ok /\ ret.msg = MsgFaltan /\ ret.log = <<>>
       /\ (IsDiag /\ missing)
            => ~ret.raised /\ ~ret.ok /\ ret.pasos = <<Paso("variables", FALSE)>>
               /\ ret.log = <<>>
       /\ (IsValidar /\ missing)
            => ~ret.raised /\ ~ret.ok /\ ret.faltan # <<>>
       /\ IsValidar
            => ((~ret.raised /\ ret.ok) <=> (~sent.raised /\ sent.msg # MsgFaltan))

\* C5: on port 465 the operations are SMTP_SSL, login, send_message; on any
\* other port SMTP, ehlo, starttls, ehlo, login, send_message; an operation
\* is attempted only after the one before it succeeded, so login follows the
\* encrypted transport, send_message follows a successful login, and
\* (True, "OK") is returned only after send_message completed.
C5_TransportLoginSend ==
    (IsEnviar /\ ret.log # <<>>) =>
        LET log == ret.log
            expected == IF IntOf(EnvPort(env)) = 465
                        THEN <<"SMTP_SSL", "login", "send_message", "quit">>
                        ELSE <<"SMTP", "ehlo", "starttls", "ehlo", "login",
                               "send_message", "quit">>
        IN /\ \A i \in 1..Len(log) :
                 \/ i <= Len(expected) /\ log[i].op = expected[i]
                 \/ i = Len(log) /\ log[i].op = "quit"
           /\ \A i \in OpsOf(log, {"login"}) :
                 \E j \in OpsOf(log, {"SMTP_SSL", "starttls"}) : j < i /\ log[j].ok
           /\ \A i \in OpsOf(log, {"send_message"}) :
                 \E j \in OpsOf(log, {"login"}) : j < i /\ log[j].ok
           /\ \A i \in OpsOf(log, {"send_message", "login", "starttls"}) :
                 \A j \in 1..(i - 1) : log[j].ok
           /\ (ret.ok /\ ret.msg = MsgOK)
                 => \E i \in OpsOf(log, {"send_message"}) : log[i].ok

\* C5 witness: a delivery on the default port went through the STARTTLS upgrade
C5_Witness ==
    /\ IsEnviar /\ env.SMTP_PORT = None /\ ret.ok
    /\ Len(ret.log) = 7 /\ ret.log[3].op = "starttls" /\ ret.log[6].op = "send_message"

\* C6: when a network operation of enviar_email_simple raises, the call
\* opened exactly one connection, attempted nothing after the failure (but
\* the QUIT of the with block), raised nothing and returned (False, msg) with
\* msg "Autenticacion fallo..." for SMTPAuthenticationError, "Error SMTP..."
\* for the other SMTP errors and "Error general..." otherwise; and for every
\* call that returned the page shows the success message iff ok and the
\* error message iff not ok.
C6_FailuresSurfaced ==
    IsEnviar =>
        LET log == ret.log
            failed == {i \in 1..Len(log) : ~log[i].ok}
        IN /\ failed # {} =>
                /\ Cardinality(OpsOf(log, {"SMTP", "SMTP_SSL"})) = 1
                /\ Cardinality(failed) = 1
                /\ \A i \in failed : \A j \in (i + 1)..Len(log) : log[j].op = "quit"
                /\ ~ret.raised /\ ~ret.ok
                /\ ret.msg = (IF call.net.exc = "SMTPAuthenticationError" THEN MsgAuth
                              ELSE IF call.net.exc \in SMTPExceptionClasses THEN MsgSmtp
                              ELSE MsgGeneral)
           /\ ~ret.raised =>
                /\ ui.outcome \in {"success", "error"}
                /\ ui.outcome = "success" <=> ret.ok
                /\ ui.outcome = "error" <=> ~ret.ok
                /\ Len(ui.sends) = 1

\* C6 witness: the login was refused and the page shows the error
C6_Witness ==
    /\ IsEnviar /\ call.net.exc = "SMTPAuthenticationError"
    /\ \E i \in OpsOf(ret.log, {"login"}) : ~ret.log[i].ok
    /\ ret.msg = MsgAuth /\ ui.outcome = "error"

\* C7: the session record is None until the first computation; afterwards
\* its nivel is banda_riesgo of its own prob and its salario, monto, plazo
\* and prob are those of the last scoring; the page shows that record and an
\* email body reports it; only a run in which "Calcular riesgo" was pressed
\* changes the record.
C7_RecordInv ==
    /\ ultimo = Nothing <=> scored = Nothing
    /\ ultimo = Nothing => ui.shown = Nothing /\ ~ui.form /\ ui.sends = <<>>
    /\ ultimo # Nothing =>
          LET u == ultimo[1] IN
          /\ u.nivel = banda_riesgo(u.prob)
          /\ u.nivel \in {"Bajo", "Medio", "Alto"}
          /\ scored = Some([salario |-> u.salario, monto |-> u.monto,
                            plazo |-> u.plazo, prob |-> u.prob])
          /\ ui.shown = Some([pct |-> u.prob * 10, nivel |-> u.nivel])
          /\ \A i \in 1..Len(ui.sends) :
                LET c == ui.sends[i].cuerpo_texto IN
                /\ c.salario = u.salario /\ c.monto = u.monto /\ c.plazo = u.plazo
                /\ c.pct = u.prob * 10 /\ c.nivel = u.nivel

C7_LastResultRecord ==
    /\ []C7_RecordInv
    /\ [][ui'.trigger # "calcular" => ultimo' = ultimo]_vars
    /\ [][ui'.trigger = "calcular" =>
            \E pr \in Probs :
                ultimo' = Some([salario |-> salario, monto |-> monto, plazo |-> plazo,
                                prob |-> pr, nivel |-> ultimo'[1].nivel])]_vars

\* C7 witness: the widgets were changed after the computation and an email
\* was then sent: its body reports the computed record, not the widgets
C7_Witness ==
    /\ ultimo # Nothing /\ ui.trigger = "enviar" /\ ui.sends # <<>>
    /\ salario # ultimo[1].salario /\ plazo # ultimo[1].plazo
    /\ ui.sends[1].cuerpo_texto.salario = ultimo[1].salario

C9_DiagnosticSteps ==
    (IsDiag /\ ~ret.raised) =>
        LET P == ret.pasos
            log == ret.log
            auth == IF IntOf(EnvPort(env)) = 465 THEN "SSL(465)+AUTH" ELSE "STARTTLS(587)+AUTH"
            failures == {"AUTH", "SMTP", "GENERAL"}
        IN /\ Len(P) \in 1..4
           /\ \A i \in 1..Len(P) : ~P[i].ok => i = Len(P)
           /\ P[1].paso \in {"variables", "DNS"}
           /\ P[1].paso = "variables" => Len(P) = 1 /\ ~P[1].ok /\ log = <<>>
           /\ Len(P) >= 2 => P[2].paso = "Socket"
           /\ Len(P) >= 3 => P[3].paso \in {auth} \cup failures
           /\ Len(P) = 4 => P[3].paso = auth /\ P[4].paso \in failures
           /\ \A i \in 1..Len(P) : P[i].paso \in failures <=> (i >= 3 /\ ~P[i].ok)
           /\ \A i \in 1..Len(log) : ~log[i].ok =>
                 \A j \in (i + 1)..Len(log) : log[j].op = "quit"
           /\ (P[1].paso = "DNS" /\ ~P[1].ok) => OpsOf(log, {"create_connection"}) = {}
           /\ (Len(P) = 2 /\ ~P[2].ok) => OpsOf(log, {"SMTP", "SMTP_SSL", "login"}) = {}
           /\ ret.ok <=> (/\ \A i \in 1..Len(P) : P[i].ok
                          /\ \E i \in 1..Len(P) : P[i].paso = auth /\ P[i].ok)
           /\ ret.ok => \E i \in OpsOf(log, {"login"}) : log[i].ok

\* C9 witness: DNS and the socket were fine and the login was refused
C9_Witness ==
    /\ IsDiag /\ ~ret.ok /\ Len(ret.pasos) = 3
    /\ ret.pasos[1] = Paso("DNS", TRUE) /\ ret.pasos[2] = Paso("Socket", TRUE)
    /\ ret.pasos[3] = Paso("AUTH", FALSE)

\* C10: a submit whose address is empty or whitespace-only calls nothing,
\* draws no reference ID and shows the invalid-address error;
\* enviar_email_simple is called at most once per run, only by a submit, only
\* with a result record whose band is not "Alto" and a non-blank recipient.
C10_BlankRecipientNotSent ==
    /\ (ui.trigger = "enviar" /\ Blank(ui.email))
          => ui.sends = <<>> /\ ui.envio_id = "-" /\ ui.outcome = "invalid"
             /\ ui.result = NoSend
    /\ Len(ui.sends) <= 1
    /\ ui.sends # <<>> =>
          /\ ui.trigger = "enviar"
          /\ ultimo # Nothing /\ ultimo[1].nivel # "Alto"
          /\ ~Blank(ui.sends[1].destinatario)
          /\ ui.sends[1].destinatario = ui.email
          /\ ui.envio_id \in EnvioIds
    /\ ui.outcome = "invalid" => ui.trigger = "enviar" /\ Blank(ui.email)

\* C10 witness: a whitespace-only address was submitted
C10_Witness ==
    /\ ui.trigger = "enviar" /\ ui.email = <<" ">> /\ ui.outcome = "invalid"

=============================================================================
